---------------------------- MODULE Spec2Model ----------------------------
(***************************************************************************)
(* Host emulation of the Tock userspace/kernel boundary                    *)
(* (host-testing/src).  The kernel process drives one child application    *)
(* over a datagram transport: SysCall::switch_to_process starts the child  *)
(* on first use, runs UnixProcess::unyield (KernelReturn, allow-region     *)
(* exchange, Syscall, allow-region exchange) and translates ALLOW          *)
(* addresses through UnixProcess::allow.                                   *)
(*                                                                         *)
(* switch_to_process is modelled step by step: pc is the position of the   *)
(* scheduler thread inside the call, named after the source line it is     *)
(* about to execute; every transport operation is one step, so that the    *)
(* order of the wire operations is visible.  The scheduler thread is the   *)
(* only thread that touches this state, so no other action is enabled      *)
(* while pc is inside the call.                                            *)
(*                                                                         *)
(* Around the boundary, EmulatedProcess (state, task queue, work counter)  *)
(* is driven through ProcessType (ProcSpec), its task queue is exercised   *)
(* on its own with its calls recorded (TaskSpec), and the HostChip with    *)
(* the interrupt channel, the LowerHalf heap and the SysTick is driven by  *)
(* the kernel thread while the UpperHalf thread sends interrupts           *)
(* (ChipSpec).                                                             *)
(***************************************************************************)
EXTENDS Integers, Sequences, FiniteSets, TLC

\* ------------------------------------------------------------------ bounds
\* App-space addresses are 0..MaxAddr (0 is the null pointer).
MaxAddr == 2
\* Allowed regions have 0..MaxLen bytes; datagrams carry 0..MaxLen bytes.
MaxLen == 1
\* Byte values are 0..MaxByte.
MaxByte == 1
\* Words of a frame that are plain arguments are 0..MaxArg.
MaxArg == 1
\* Return values are -MaxRet..MaxRet.
MaxRet == 1

NULL == 0

AppAddrs == 0..MaxAddr
\* Kernel heap addresses the allocator may return (never null).  They overlap
\* the app addresses numerically: both are plain machine words.
KernelAddrs == 1..(MaxAddr + 1)
Bytes == 0..MaxByte
Lens == 0..MaxLen
ArgVals == 0..MaxArg
RetVals == (0 - MaxRet)..MaxRet

\* ----------------------------------------------------------------- helpers
Range(s) == {s[i] : i \in DOMAIN s}

Zeros(n) == [i \in 1..n |-> 0]

RECURSIVE SeqsUpTo(_, _)
SeqsUpTo(S, n) ==
    IF n = 0 THEN {<<>>}
    ELSE LET shorter == SeqsUpTo(S, n - 1)
         IN  shorter \cup {Append(s, x) : s \in {t \in shorter : Len(t) = n - 1}, x \in S}

\* Datagrams the app may send where slice bytes are expected.
SliceDatagrams == SeqsUpTo(Bytes, MaxLen)

\* All orders in which the keys S can sit in the hash table.
Perms(S) ==
    {s \in [1..Cardinality(S) -> S] : \A i, j \in 1..Cardinality(S) : i # j => s[i] # s[j]}

\* Every iteration order of a table whose keys are non-null app addresses.
TableOrders == UNION {Perms(S) : S \in SUBSET (AppAddrs \ {NULL})}

VARIABLES
    process,          \* UnixProcess.process: TRUE iff the child handle is stored
    allow_map,        \* UnixProcess.allow_map: app address -> AllowSlice
    table_order,      \* iteration order of allow_map (position of the keys in the table)
    syscall_ret,      \* HostStoredState.syscall_ret
    tx_connected,     \* SyscallTransport.tx has a peer
    pc,               \* position of the scheduler thread
    return_value,     \* switch_to_process: local return_value (<<>> is None)
    send,             \* transfer_allow_region: parameter send
    caller,           \* transfer_allow_region: the call site to return to
    idx,              \* transfer_allow_region: position of the iterator
    syscall_buf,      \* unyield: the frame read at line 149 (<<>> before)
    result,           \* what the last switch_to_process returned
    log,              \* transport operations of the current (last) call
    insertion_order,  \* history: keys in the order of their first insertion
    populated,        \* history: keys whose bytes arrived since their insertion
    first_call,       \* history: the current (last) call found the child not started
    prev_allow,       \* history: app address of the ALLOW the previous call returned
    allow_ret,        \* history: what process.allow returned in the last call
    last_set,         \* history: the last set_syscall_return_value / set_process_function
    spawn_count,      \* history: number of successful UnixProcess::start (counted up to 2)
    state,            \* EmulatedProcess.state
    tasks,            \* EmulatedProcess.tasks
    work,             \* Kernel: the external work counter
    dropped_callback_count, \* EmulatedProcess.debug.dropped_callback_count
    proc_ret,         \* history: the last task-queue operation and what it returned
    accepted,         \* history: the tasks the queue accepted, in order
    returned,         \* history: the tasks dequeue_task returned, in order
    removed,          \* history: remove_pending_callbacks was called
    channel,          \* mpsc channel from the UpperHalf to the LowerHalf (source ids)
    pending,          \* LowerHalf.pending: the heap, as source id -> count
    chip_pc,          \* the kernel thread in the chip: "run", "wait", "service", "panic"
    wait_us,          \* the argument of the wait_for_interrupt in progress
    in_sleep,         \* the wait_for_interrupt in progress was called by sleep
    irq_ret,          \* history: the last chip operation and what it returned
    now,              \* SystemTime::now()
    start_time,       \* SysTick.start_time
    set_duration_us,  \* SysTick.set_duration_us
    enabled,          \* SysTick.enabled
    sent,             \* history: the interrupts the upper half sent (source id -> count)
    handed_out,       \* history: the interrupts the lower half handed out
    service_start,    \* history: the interrupts around when the last service call began
    dispatched,       \* history: the interrupts the last service call dispatched
    produced,         \* history: an interrupt was sent during the last service call
    grant_region,     \* EmulatedProcess.grant_region
    last_grant        \* history: the last set_grant_ptr call

\* The state of the userspace/kernel boundary (SysCall, UnixProcess).
boundary_vars == <<process, allow_map, table_order, syscall_ret, tx_connected, pc,
                   return_value, send, caller, idx, syscall_buf, result, log,
                   insertion_order, populated, first_call, prev_allow, allow_ret,
                   last_set, spawn_count>>

\* The state of the EmulatedProcess around it.
proc_vars == <<state, tasks, work, dropped_callback_count>>

\* The history of the task queue, recorded while the queue is exercised on
\* its own (TaskSpec).
task_hist == <<proc_ret, accepted, returned, removed>>

\* The state of the HostChip: the interrupt channel and the SysTick.
chip_vars == <<channel, pending, chip_pc, wait_us, in_sleep, irq_ret, now,
               start_time, set_duration_us, enabled>>

\* The history of the interrupts, recorded while the interrupt path is
\* exercised on its own (IrqSpec).
irq_hist == <<sent, handed_out, service_start, dispatched, produced>>

\* The grant pointer of the EmulatedProcess (GrantSpec).
grant_vars == <<grant_region, last_grant>>

vars == <<boundary_vars, proc_vars, task_hist, chip_vars, irq_hist, grant_vars>>


\* ------------------------------------------------------------- wire types
\* common_types.rs: a frame is the sequence of its machine words.
Callback_new(cb_pc, arg0, arg1, arg2, arg3) ==
    [pc |-> cb_pc, args |-> <<arg0, arg1, arg2, arg3>>]

Callback_new0(cb_pc) == Callback_new(cb_pc, 0, 0, 0, 0)

KernelReturn_new(ret_val, cb) == [ret_val |-> ret_val, cb |-> cb]

\* Mutant: new_ret leaves a callback pc in the frame.
new_ret_with_pc(ret_val) == KernelReturn_new(ret_val, Callback_new0(1))

new_ret(ret_val) == KernelReturn_new(ret_val, Callback_new0(0))

\* Mutant: new_cb keeps the pc and drops the arguments.
new_cb_drops_args(cb) == KernelReturn_new(0, Callback_new0(cb.pc))

new_cb(cb) == KernelReturn_new(0, cb)

\* AsBytes for KernelReturn: ret_val, then the embedded Callback.
KernelReturn_as_bytes(r) == <<r.ret_val, r.cb.pc>> \o r.cb.args

AllowedRegionPreamble_new(address, length) == [address |-> address, length |-> length]

new_null == AllowedRegionPreamble_new(0, 0)

\* The FunctionCall values the scheduler hands to set_process_function.
FunctionCalls ==
    {[pc |-> p, argument0 |-> a, argument1 |-> a + 1, argument2 |-> a + 2,
      argument3 |-> a + 3] : p \in 1..MaxArg, a \in 1..MaxArg}

\* The Syscall datagrams the app may send (syscall_number, args[0..3]): an
\* ALLOW with every combination of arguments, one frame of every other
\* syscall number up to the first undefined one and of a number beyond one
\* byte, and the short datagrams.
\* Datagrams shorter than a Syscall frame: the empty one and an ALLOW that
\* lacks its last word.
ShortDatagrams == {<<>>, <<3, 0, 0, 1>>}

SyscallNumbers == (0..5) \cup {256 + 3}

SyscallDatagrams ==
    {<<3, a0, a1, a2, a3>> : a0 \in ArgVals, a1 \in ArgVals, a2 \in AppAddrs, a3 \in Lens}
    \cup {<<n, MaxArg, 0, MaxAddr, MaxLen>> : n \in SyscallNumbers}
    \cup ShortDatagrams

\* The task EmulatedProcess::create enqueues: pc = 0 tells the scheduler to
\* exec the process.
KernelTask0 ==
    [kind |-> "FunctionCall", source |-> <<"Kernel">>,
     call |-> [pc |-> 0, argument0 |-> 0, argument1 |-> 0, argument2 |-> 0,
               argument3 |-> 0]]

\* --------------------------------------------------------- transport log
Ev(op, addr, len, bytes, dir, ok) ==
    [op |-> op, addr |-> addr, len |-> len, bytes |-> bytes, dir |-> dir, ok |-> ok]

None == <<>>
Some(x) == <<x>>

NoResult == [reason |-> "None"]
Fault == [reason |-> "Fault"]
SyscallFired(s) == [reason |-> "SyscallFired", syscall |-> s]

\* ------------------------------------------------------------ AllowSlice
\* Mutant: a new entry is born valid.
AllowSlice_new_valid(slice) == [slice |-> slice, valid |-> TRUE]

\* AllowSlice::new
AllowSlice_new(slice) == [slice |-> slice, valid |-> FALSE]

is_valid(s) == s.valid

\* Mutant: validate forgets to set the flag.
validate_forgets(s) == s

validate(s) == [s EXCEPT !.valid = TRUE]

\* Mutant: insert keeps the value of an existing key (entry().or_insert()).
HashMap_insert_keep(m, k, v) ==
    [x \in (DOMAIN m) \cup {k} |-> IF x \in DOMAIN m THEN m[x] ELSE v]

\* HashMap::insert: replaces the value of an existing key.
HashMap_insert(m, k, v) == [x \in (DOMAIN m) \cup {k} |-> IF x = k THEN v ELSE m[x]]

\* Mutant: allow without the null check of line 110.
allow_without_null_check(map, app_slice_addr, len, ptr) ==
    [map |-> [x \in (DOMAIN map) \cup {app_slice_addr} |->
                 IF x = app_slice_addr THEN [slice |-> Zeros(len), valid |-> FALSE]
                 ELSE map[x]],
     ret |-> ptr]

\* UnixProcess::allow: the map afterwards and the returned kernel address.
\* ptr is slice.as_mut_ptr(), the address the allocator gave to vec![0; len].
allow(map, app_slice_addr, len, ptr) ==
    IF app_slice_addr = NULL
    THEN [map |-> map, ret |-> app_slice_addr]
    ELSE [map |-> HashMap_insert(map, app_slice_addr, AllowSlice_new(Zeros(len))),
          ret |-> ptr]

\* Mutant: the table iterates over the inserted key only.
OrdersAfterInsert_forgets(order, k) == {<<k>>}

\* Iteration orders of the table after inserting key k: an existing key is
\* replaced in place; a new key may land anywhere and may trigger a rehash.
OrdersAfterInsert(order, k) ==
    IF k \in Range(order) THEN {order} ELSE Perms(Range(order) \cup {k})

\* Mutant: the iterator runs backwards.
entry_at_reversed(order, i) == order[Len(order) + 1 - i]

\* The i-th item of allow_map.iter_mut().
entry_at(order, i) == order[i]

\* Mutant: the validity test applies to the receive direction.
skip_entry_on_receive(snd, slice) == ~snd /\ ~slice.valid

\* Mutant: the validity test applies to both directions.
skip_entry_any_direction(snd, slice) == ~slice.valid

\* transfer_allow_region, line 192: the entry is passed over.
skip_entry(snd, slice) == snd /\ ~is_valid(slice)

\* Position of the next entry the loop of transfer_allow_region handles,
\* at or after position i; Len(order) + 1 when the iterator is exhausted.
RECURSIVE next_entry(_, _, _, _)
next_entry(map, order, snd, i) ==
    IF i > Len(order) THEN i
    ELSE IF skip_entry(snd, map[entry_at(order, i)]) THEN next_entry(map, order, snd, i + 1)
    ELSE i

\* UnixDatagram::recv into buf: the datagram's bytes overwrite the front of
\* buf; bytes beyond buf.len() are discarded.
recv_into(buf, dgram) ==
    [i \in 1..Len(buf) |-> IF i <= Len(dgram) THEN dgram[i] ELSE buf[i]]

received_len(buf, dgram) == IF Len(dgram) < Len(buf) THEN Len(dgram) ELSE Len(buf)

\* Mutant: the exchange after the KernelReturn sends instead of receiving.
unyield_send_after_return_flipped == TRUE

\* unyield, lines 144 and 152: the send argument of the two exchanges.
unyield_send_after_return == FALSE

unyield_send_after_syscall == TRUE

\* kernel::syscall::arguments_to_syscall
arguments_to_syscall(syscall_number, r0, r1, r2, r3) ==
    CASE syscall_number = 0 -> Some([class |-> "YIELD"])
      [] syscall_number = 1 -> Some([class |-> "SUBSCRIBE", driver_number |-> r0,
                                     subdriver_number |-> r1, callback_ptr |-> r2,
                                     appdata |-> r3])
      [] syscall_number = 2 -> Some([class |-> "COMMAND", driver_number |-> r0,
                                     subdriver_number |-> r1, arg0 |-> r2, arg1 |-> r3])
      [] syscall_number = 3 -> Some([class |-> "ALLOW", driver_number |-> r0,
                                     subdriver_number |-> r1, allow_address |-> r2,
                                     allow_size |-> r3])
      [] syscall_number = 4 -> Some([class |-> "MEMOP", operand |-> r0, arg0 |-> r1])
      [] OTHER -> None

\* syscall_number as u8
as_u8(x) == x % 256

\* Mutant: the ALLOW is handed on with the app's address.
translate_allow_untranslated(s, allow_address) == s

\* switch_to_process, lines 153-170: the syscall handed to the kernel.
translate_allow(s, allow_address) ==
    [class |-> "ALLOW", driver_number |-> s.driver_number,
     subdriver_number |-> s.subdriver_number, allow_address |-> allow_address,
     allow_size |-> s.allow_size]

\* ------------------------------------------------------------------- Init
\* ------------------------------------------------------------- interrupts
\* Interrupt sources are 1..MaxSource.
MaxSource == 3
\* The channel and the heap together hold up to MaxInFlight interrupts.
MaxInFlight == 3
\* The wall clock is explored over 0..MaxTime microseconds.
MaxTime == 2
\* Timer durations and thresholds are 0..MaxDuration microseconds.
MaxDuration == 2

Sources == 1..MaxSource

Durations == 0..MaxDuration

\* BinaryHeap::new
BinaryHeap_new == [s \in Sources |-> 0]

\* new_interrupt_channel, LowerHalf::new, SysTick::new
ChipInit ==
    /\ channel = <<>>
    /\ pending = BinaryHeap_new
    /\ chip_pc = "run"
    /\ wait_us = None
    /\ in_sleep = FALSE
    /\ irq_ret = None
    /\ now = 0
    /\ start_time = now
    /\ set_duration_us = 0
    /\ enabled = TRUE
    /\ sent = BinaryHeap_new
    /\ handed_out = BinaryHeap_new
    /\ service_start = BinaryHeap_new
    /\ dispatched = BinaryHeap_new
    /\ produced = FALSE

Init ==
    /\ process = FALSE
    /\ allow_map = <<>>
    /\ table_order = <<>>
    /\ syscall_ret = new_ret(0)
    /\ tx_connected = FALSE
    /\ pc = "idle"
    /\ return_value = None
    /\ send = FALSE
    /\ caller = "none"
    /\ idx = 1
    /\ syscall_buf = <<>>
    /\ result = NoResult
    /\ log = <<>>
    /\ insertion_order = <<>>
    /\ populated = {}
    /\ first_call = FALSE
    /\ prev_allow = NULL
    /\ allow_ret = NULL
    /\ last_set = None
    /\ spawn_count = 0
    /\ state = "Unstarted"
    /\ tasks = <<KernelTask0>>
    /\ work = 1
    /\ dropped_callback_count = 0
    /\ proc_ret = None
    /\ accepted = <<KernelTask0>>
    /\ returned = <<>>
    /\ removed = FALSE
    /\ grant_region = NULL
    /\ last_grant = None
    /\ ChipInit

\* ---------------------------------------------------------------- actions
\* The kernel scheduler never switches to, nor stores a return for, a
\* process whose switch_to_process returned Fault: it calls set_fault_state,
\* which panics (process.rs line 373).
scheduler_runs == pc = "idle" /\ result.reason # "Fault"

\* A transport operation failed: `?` leaves unyield, switch_to_process returns
\* Fault (syscall.rs lines 134-137).
FailWith(ev) ==
    /\ log' = Append(log, ev)
    /\ result' = Fault
    /\ pc' = "idle"

\* SysCall::set_syscall_return_value
set_syscall_return_value(return_value_arg) ==
    /\ scheduler_runs
    /\ syscall_ret' = new_ret(return_value_arg)
    /\ last_set' = Some([op |-> "set_syscall_return_value", arg |-> return_value_arg])
    /\ UNCHANGED <<process, allow_map, table_order, tx_connected, pc, return_value,
                   send, caller, idx, syscall_buf, result, log, insertion_order,
                   populated, first_call, prev_allow, allow_ret, spawn_count>>

\* SysCall::set_process_function
set_process_function(callback) ==
    /\ scheduler_runs
    /\ syscall_ret' = new_cb(Callback_new(callback.pc, callback.argument0,
                                          callback.argument1, callback.argument2,
                                          callback.argument3))
    /\ last_set' = Some([op |-> "set_process_function", arg |-> callback])
    /\ UNCHANGED <<process, allow_map, table_order, tx_connected, pc, return_value,
                   send, caller, idx, syscall_buf, result, log, insertion_order,
                   populated, first_call, prev_allow, allow_ret, spawn_count>>

\* Mutant: was_started never sees the stored child.
process_was_started_never == FALSE

\* UnixProcess::was_started
process_was_started == process

\* UnixProcess::start: the child handle is stored iff the spawn succeeded.
start(spawned) == spawned

\* Mutant: the stored return is shipped in the first call too.
stored_return_always(was_started, ret) == <<ret>>

\* switch_to_process, lines 119-129: what is handed to unyield.
stored_return(was_started, ret) == IF ~was_started THEN None ELSE Some(ret)

\* switch_to_process, lines 109-129, and the branch at unyield line 141:
\* start the child on first use, else take the stored return.  spawned is
\* the outcome of Command::spawn.
switch_to_process_enter(spawned) ==
    /\ scheduler_runs
    /\ log' = <<>>
    /\ prev_allow' = IF result.reason = "SyscallFired" /\ result.syscall.class = "ALLOW"
                      THEN syscall_buf[4] ELSE NULL
    /\ allow_ret' = NULL
    /\ syscall_buf' = <<>>
    /\ first_call' = ~process_was_started
    /\ IF ~process_was_started /\ ~spawned
       THEN /\ result' = Fault
            /\ pc' = "idle"
            /\ UNCHANGED <<process, return_value, spawn_count>>
       ELSE /\ process' = (IF ~process_was_started THEN start(spawned) ELSE process)
            /\ spawn_count' = IF ~process_was_started /\ spawn_count < 2
                               THEN spawn_count + 1 ELSE spawn_count
            /\ return_value' = stored_return(process_was_started, syscall_ret)
            /\ pc' = IF return_value' = None THEN "l149" ELSE "l142"
            /\ result' = NoResult
    /\ UNCHANGED <<allow_map, table_order, syscall_ret, tx_connected, send, caller,
                   idx, insertion_order, populated, last_set>>

\* SyscallTransport::tx_connect_if_needed, called at unyield lines 142, 151.
tx_connect_if_needed(ok) ==
    /\ pc \in {"l142", "l151"}
    /\ IF tx_connected
       THEN /\ pc' = IF pc = "l142" THEN "l143" ELSE "l152"
            /\ UNCHANGED <<tx_connected, log, result>>
       ELSE IF ok
            THEN /\ tx_connected' = TRUE
                 /\ log' = Append(log, Ev("connect", 0, 0, <<>>, FALSE, TRUE))
                 /\ pc' = IF pc = "l142" THEN "l143" ELSE "l152"
                 /\ UNCHANGED result
            ELSE /\ FailWith(Ev("connect", 0, 0, <<>>, FALSE, FALSE))
                 /\ UNCHANGED tx_connected
    /\ UNCHANGED <<process, allow_map, table_order, syscall_ret, return_value, send,
                   caller, idx, syscall_buf, insertion_order, populated, first_call,
                   prev_allow, allow_ret, last_set,
                   spawn_count>>

\* unyield, line 143: transport.send(&ret).
unyield_send_return(ok) ==
    /\ pc = "l143"
    /\ LET ev == Ev("send_ret", 0, 0, KernelReturn_as_bytes(return_value[1]), FALSE, ok)
       IN  IF ok
           THEN /\ log' = Append(log, ev)
                /\ pc' = "l144"
                /\ UNCHANGED result
           ELSE FailWith(ev)
    /\ UNCHANGED <<process, allow_map, table_order, syscall_ret, tx_connected,
                   return_value, send, caller, idx, syscall_buf, insertion_order,
                   populated, first_call, prev_allow, allow_ret, last_set,
                   spawn_count>>

\* unyield, lines 144 and 152: call transfer_allow_region.
unyield_call_transfer ==
    /\ pc \in {"l144", "l152"}
    /\ send' = IF pc = "l144" THEN unyield_send_after_return
                              ELSE unyield_send_after_syscall
    /\ caller' = pc
    /\ idx' = 1
    /\ pc' = "l188"
    /\ UNCHANGED <<process, allow_map, table_order, syscall_ret, tx_connected,
                   return_value, syscall_buf, result, log, insertion_order, populated,
                   first_call, prev_allow, allow_ret, last_set,
                   spawn_count>>

\* transfer_allow_region, lines 188-197: advance the iterator past the
\* skipped entries and send the preamble of the next entry.
transfer_send_preamble(ok) ==
    /\ pc = "l188"
    /\ LET i == next_entry(allow_map, table_order, send, idx)
       IN  /\ i <= Len(table_order)
           /\ LET addr == entry_at(table_order, i)
                  preamble == AllowedRegionPreamble_new(addr, Len(allow_map[addr].slice))
                  ev == Ev("send_preamble", preamble.address, preamble.length, <<>>,
                           send, ok)
              IN  IF ok
                  THEN /\ log' = Append(log, ev)
                       /\ idx' = i
                       /\ pc' = "l199"
                       /\ UNCHANGED result
                  ELSE /\ FailWith(ev)
                       /\ UNCHANGED idx
    /\ UNCHANGED <<process, allow_map, table_order, syscall_ret, tx_connected,
                   return_value, send, caller, syscall_buf, insertion_order, populated,
                   first_call, prev_allow, allow_ret, last_set,
                   spawn_count>>

\* transfer_allow_region, line 200: send the slice to the app.
transfer_send_bytes(ok) ==
    /\ pc = "l199"
    /\ send
    /\ LET addr == entry_at(table_order, idx)
           ev == Ev("send_bytes", addr, Len(allow_map[addr].slice),
                    allow_map[addr].slice, send, ok)
       IN  IF ok
           THEN /\ log' = Append(log, ev)
                /\ idx' = idx + 1
                /\ pc' = "l188"
                /\ UNCHANGED result
           ELSE /\ FailWith(ev)
                /\ UNCHANGED idx
    /\ UNCHANGED <<process, allow_map, table_order, syscall_ret, tx_connected,
                   return_value, send, caller, syscall_buf, insertion_order, populated,
                   first_call, prev_allow, allow_ret, last_set,
                   spawn_count>>

\* transfer_allow_region, lines 202-203: receive the slice from the app and
\* mark it valid.  dgram is the datagram the app sent; io_ok the outcome of
\* the socket read.
transfer_recv_bytes(dgram, io_ok) ==
    /\ pc = "l199"
    /\ ~send
    /\ LET addr == entry_at(table_order, idx)
           buf == allow_map[addr].slice
           ok == io_ok /\ received_len(buf, dgram) = Len(buf)
           ev == Ev("recv_bytes", addr, Len(buf), dgram, send, ok)
           filled == IF io_ok THEN recv_into(buf, dgram) ELSE buf
       IN  IF ok
           THEN /\ allow_map' = [allow_map EXCEPT
                                   ![addr] = validate([@ EXCEPT !.slice = filled])]
                /\ populated' = populated \cup {addr}
                /\ log' = Append(log, ev)
                /\ idx' = idx + 1
                /\ pc' = "l188"
                /\ UNCHANGED result
           ELSE /\ allow_map' = [allow_map EXCEPT ![addr].slice = filled]
                /\ FailWith(ev)
                /\ UNCHANGED <<idx, populated>>
    /\ UNCHANGED <<process, table_order, syscall_ret, tx_connected, return_value,
                   send, caller, syscall_buf, insertion_order, first_call,
                   prev_allow, allow_ret, last_set,
                   spawn_count>>

\* transfer_allow_region, lines 209-212: the iterator is exhausted; send the
\* null terminator and return to unyield.
transfer_send_null(ok) ==
    /\ pc = "l188"
    /\ next_entry(allow_map, table_order, send, idx) > Len(table_order)
    /\ LET ev == Ev("send_preamble", new_null.address, new_null.length, <<>>, send, ok)
       IN  IF ok
           THEN /\ log' = Append(log, ev)
                /\ pc' = IF caller = "l144" THEN "l149" ELSE "l140"
                /\ UNCHANGED result
           ELSE FailWith(ev)
    /\ UNCHANGED <<process, allow_map, table_order, syscall_ret, tx_connected,
                   return_value, send, caller, idx, syscall_buf, insertion_order,
                   populated, first_call, prev_allow, allow_ret, last_set,
                   spawn_count>>

\* unyield, line 149: transport.recv::<Syscall>.  dgram is the datagram the
\* app sent, io_ok the outcome of the socket read.
unyield_recv_syscall(dgram, io_ok) ==
    /\ pc = "l149"
    /\ LET ev == Ev("recv_syscall", 0, 0, dgram, FALSE, io_ok)
       IN  IF io_ok
           THEN /\ syscall_buf' = recv_into(Zeros(5), dgram)
                /\ log' = Append(log, ev)
                /\ pc' = "l151"
                /\ UNCHANGED result
           ELSE /\ FailWith(ev)
                /\ UNCHANGED syscall_buf
    /\ UNCHANGED <<process, allow_map, table_order, syscall_ret, tx_connected,
                   return_value, send, caller, idx, insertion_order, populated,
                   first_call, prev_allow, allow_ret, last_set,
                   spawn_count>>

\* switch_to_process, lines 140-175: decode the frame, translate an ALLOW
\* through process.allow, return.  ptr is the allocator's answer and order
\* the table's iteration order after the insertion.
switch_to_process_return(ptr, order) ==
    /\ pc = "l140"
    /\ pc' = "idle"
    /\ LET syscall == arguments_to_syscall(as_u8(syscall_buf[1]), syscall_buf[2],
                                           syscall_buf[3], syscall_buf[4], syscall_buf[5])
       IN  IF syscall = None
           THEN /\ result' = Fault
                /\ ptr = 1
                /\ order = table_order
                /\ UNCHANGED <<allow_map, table_order, insertion_order, populated,
                               allow_ret>>
           ELSE LET s == syscall[1]
                IN  IF s.class = "ALLOW"
                    THEN LET r == allow(allow_map, s.allow_address, s.allow_size, ptr)
                         IN  /\ IF s.allow_address = NULL
                                THEN ptr = 1 /\ order = table_order
                                ELSE /\ order \in OrdersAfterInsert(table_order,
                                                                    s.allow_address)
                             /\ allow_map' = r.map
                             /\ table_order' = order
                             /\ insertion_order' =
                                    IF s.allow_address = NULL
                                       \/ s.allow_address \in Range(insertion_order)
                                    THEN insertion_order
                                    ELSE Append(insertion_order, s.allow_address)
                             /\ populated' = IF s.allow_address = NULL THEN populated
                                             ELSE populated \ {s.allow_address}
                             /\ allow_ret' = r.ret
                             /\ result' = SyscallFired(translate_allow(s, r.ret))
                    ELSE /\ result' = SyscallFired(s)
                         /\ ptr = 1
                         /\ order = table_order
                         /\ UNCHANGED <<allow_map, table_order, insertion_order,
                                        populated, allow_ret>>
    /\ UNCHANGED <<process, syscall_ret, tx_connected, return_value, send, caller, idx,
                   syscall_buf, log, first_call, prev_allow, last_set,
                   spawn_count>>

\* The boundary driven directly through UserspaceKernelBoundary; the
\* EmulatedProcess around it is not involved.
Boundary(A) ==
    A /\ UNCHANGED <<proc_vars, task_hist, chip_vars, irq_hist, grant_vars>>

Next ==
    \/ \E v \in RetVals : Boundary(set_syscall_return_value(v))
    \/ \E c \in FunctionCalls : Boundary(set_process_function(c))
    \/ \E spawned \in BOOLEAN : Boundary(switch_to_process_enter(spawned))
    \/ \E ok \in BOOLEAN : Boundary(tx_connect_if_needed(ok))
    \/ \E ok \in BOOLEAN : Boundary(unyield_send_return(ok))
    \/ Boundary(unyield_call_transfer)
    \/ \E ok \in BOOLEAN : Boundary(transfer_send_preamble(ok))
    \/ \E ok \in BOOLEAN : Boundary(transfer_send_bytes(ok))
    \/ \E d \in SliceDatagrams, ok \in BOOLEAN : Boundary(transfer_recv_bytes(d, ok))
    \/ \E ok \in BOOLEAN : Boundary(transfer_send_null(ok))
    \/ \E d \in SyscallDatagrams, ok \in BOOLEAN : Boundary(unyield_recv_syscall(d, ok))
    \/ \E ptr \in KernelAddrs, order \in TableOrders :
           Boundary(switch_to_process_return(ptr, order))

Spec == Init /\ [][Next]_vars

\* --------------------------------------------------------- EmulatedProcess
\* kernel::procs::State
States ==
    {"Unstarted", "Running", "Yielded", "StoppedRunning", "StoppedYielded",
     "StoppedFaulted", "Fault"}

\* The task queue is explored up to MaxTasks tasks.
MaxTasks == 2
\* The work counter is explored up to MaxWork.
MaxWork == 3
\* Drivers that schedule callbacks are 1..MaxDriver.
MaxDriver == 2

DriverIds == 1..MaxDriver

\* The tasks capsules and the kernel hand to enqueue_task.
EnqueueTasks ==
    {[kind |-> "FunctionCall", source |-> <<"Driver", d>>, call |-> c] :
        d \in DriverIds, c \in FunctionCalls}
    \cup {[kind |-> "IPC"]}

\* The FunctionCalls handed to EmulatedProcess::set_process_function.
ProcessFunctionCalls == FunctionCalls \cup {KernelTask0.call}

\* The Syscall datagrams of the app while the process is driven through
\* ProcessType: one frame of every syscall number up to the first undefined
\* one.
ProcessDatagrams == {<<n, MaxArg, 0, MaxAddr, MaxLen>> : n \in 0..5}

\* Kernel::increment_work_external and Kernel::decrement_work_external: the
\* counter moves by one.
increment_work_external(w) == w + 1

decrement_work_external(w) == w - 1

\* Mutant: is_active looks for Fault only.
is_active_fault_only(s) == s # "Fault"

is_active(s) == s # "StoppedFaulted" /\ s # "Fault"

\* What enqueue_task returns: false at line 302, else the ret of line 306,
\* which is true because the tasks cell always holds a queue.
enqueue_task_ret(s) == IF ~is_active(s) THEN FALSE ELSE TRUE

\* Mutant: dequeue_task hands out the back of the queue.
dequeue_task_ret_back(q) == IF q = <<>> THEN None ELSE Some(q[Len(q)])

\* What dequeue_task returns: the front of the queue, if any.
dequeue_task_ret(q) == IF q = <<>> THEN None ELSE Some(Head(q))

\* Mutant: the retain closure of remove_pending_callbacks drops the Kernel
\* calls too.
retain_drops_kernel(task, callback_id) ==
    IF task.kind = "FunctionCall"
    THEN IF task.source[1] = "Kernel"
         THEN FALSE
         ELSE task.source[2] # callback_id
    ELSE TRUE

\* The closure handed to retain by remove_pending_callbacks (lines 332-338).
retain(task, callback_id) ==
    IF task.kind = "FunctionCall"
    THEN IF task.source[1] = "Kernel"
         THEN TRUE
         ELSE task.source[2] # callback_id
    ELSE TRUE

\* VecDeque::retain: the kept elements in their order.
RECURSIVE VecDeque_retain(_, _)
VecDeque_retain(q, callback_id) ==
    IF q = <<>>
    THEN <<>>
    ELSE IF retain(Head(q), callback_id)
         THEN <<Head(q)>> \o VecDeque_retain(Tail(q), callback_id)
         ELSE VecDeque_retain(Tail(q), callback_id)

\* EmulatedProcess::enqueue_task
enqueue_task(task) ==
    /\ scheduler_runs
    /\ Len(tasks) < MaxTasks
    /\ work < MaxWork
    /\ IF ~is_active(state)
       THEN UNCHANGED <<tasks, work, dropped_callback_count>>
       ELSE /\ work' = increment_work_external(work)
            /\ tasks' = Append(tasks, task)
            /\ dropped_callback_count' =
                   IF enqueue_task_ret(state)
                   THEN dropped_callback_count
                   ELSE dropped_callback_count + 1
    /\ UNCHANGED <<state, boundary_vars>>

\* Mutant: dequeue_task decrements the work counter on an empty queue too.
dequeue_task_on_empty ==
    /\ scheduler_runs
    /\ tasks' = IF tasks = <<>> THEN tasks ELSE Tail(tasks)
    /\ work' = decrement_work_external(work)
    /\ UNCHANGED <<state, dropped_callback_count, boundary_vars>>

\* EmulatedProcess::dequeue_task
dequeue_task ==
    /\ scheduler_runs
    /\ IF tasks = <<>>
       THEN UNCHANGED <<tasks, work>>
       ELSE /\ tasks' = Tail(tasks)
            /\ work' = decrement_work_external(work)
    /\ UNCHANGED <<state, dropped_callback_count, boundary_vars>>

\* EmulatedProcess::remove_pending_callbacks: the work counter is not
\* touched.
remove_pending_callbacks(callback_id) ==
    /\ scheduler_runs
    /\ tasks' = VecDeque_retain(tasks, callback_id)
    /\ UNCHANGED <<state, work, dropped_callback_count, boundary_vars>>

\* EmulatedProcess::set_yielded_state
set_yielded_state ==
    /\ scheduler_runs
    /\ IF state = "Running"
       THEN /\ state' = "Yielded"
            /\ work' = decrement_work_external(work)
       ELSE UNCHANGED <<state, work>>
    /\ UNCHANGED <<tasks, dropped_callback_count, boundary_vars>>

\* Mutant: stop parks every state that is not already stopped.
stop_state_any(s) ==
    CASE s = "Yielded" -> "StoppedYielded"
      [] s \in {"StoppedRunning", "StoppedYielded", "StoppedFaulted", "Fault"} -> s
      [] OTHER -> "StoppedRunning"

\* EmulatedProcess::stop: the state afterwards.
stop_state(s) ==
    CASE s = "Running" -> "StoppedRunning"
      [] s = "Yielded" -> "StoppedYielded"
      [] OTHER -> s

\* EmulatedProcess::resume: the state afterwards.
resume_state(s) ==
    CASE s = "StoppedRunning" -> "Running"
      [] s = "StoppedYielded" -> "Yielded"
      [] OTHER -> s

stop ==
    /\ scheduler_runs
    /\ state' = stop_state(state)
    /\ UNCHANGED <<tasks, work, dropped_callback_count, boundary_vars>>

\* Mutant: resume also clears the work counter.
resume_clears_work ==
    /\ scheduler_runs
    /\ state' = resume_state(state)
    /\ work' = 0
    /\ UNCHANGED <<tasks, dropped_callback_count, boundary_vars>>

resume ==
    /\ scheduler_runs
    /\ state' = resume_state(state)
    /\ UNCHANGED <<tasks, work, dropped_callback_count, boundary_vars>>

\* Mutant: set_fault_state forgets to store the state.
set_fault_state_keeps(s) == s

\* set_fault_state, line 370: the state stored.
set_fault_state_to(s) == "Fault"

\* EmulatedProcess::set_fault_state: stores Fault and panics; the panic ends
\* the kernel thread.
set_fault_state ==
    /\ pc = "idle"
    /\ state' = set_fault_state_to(state)
    /\ pc' = "panic"
    /\ UNCHANGED <<process, allow_map, table_order, syscall_ret, tx_connected,
                   return_value, send, caller, idx, syscall_buf, result, log,
                   insertion_order, populated, first_call, prev_allow, allow_ret,
                   last_set, spawn_count, tasks, work, dropped_callback_count>>

\* EmulatedProcess::set_syscall_return_value
EmulatedProcess_set_syscall_return_value(return_value_arg) ==
    /\ set_syscall_return_value(return_value_arg)
    /\ UNCHANGED proc_vars

\* set_process_function, line 478: the state stored.
set_process_function_state(s) == "Running"

\* EmulatedProcess::set_process_function.  SysCall::set_process_function
\* always returns Ok, so the branch of line 481 is never taken.
EmulatedProcess_set_process_function(callback) ==
    /\ work < MaxWork
    /\ set_process_function(callback)
    /\ work' = increment_work_external(work)
    /\ state' = set_process_function_state(state)
    /\ UNCHANGED <<tasks, dropped_callback_count>>

\* Mutant: switch_to starts an Unstarted process.
switch_to_state_starts(s) == IF s = "Unstarted" THEN "Running" ELSE s

\* EmulatedProcess::switch_to: the state afterwards.
switch_to_state(s) == s

\* EmulatedProcess::switch_to, line 488-490: enter switch_to_process.
switch_to_enter(spawned) ==
    /\ switch_to_process_enter(spawned)
    /\ UNCHANGED proc_vars

\* EmulatedProcess::switch_to, lines 493-499: switch_to_process returned.
switch_to_return(ptr, order) ==
    /\ switch_to_process_return(ptr, order)
    /\ state' = switch_to_state(state)
    /\ UNCHANGED <<tasks, work, dropped_callback_count>>

\* The process driven through ProcessType; the history of the task queue is
\* not recorded.
Process(A) == A /\ UNCHANGED <<task_hist, chip_vars, irq_hist, grant_vars>>

\* The tasks and the driver handed to the queue while the whole process is
\* driven: the callbacks of driver 1 and an IPC task.
ProcessDriverIds == {1}

ProcessTasks == {t \in EnqueueTasks : t.kind = "FunctionCall" => t.source[2] \in ProcessDriverIds}

\* The process driven through ProcessType in any order.
ProcNext ==
    \/ \E t \in ProcessTasks : Process(enqueue_task(t))
    \/ Process(dequeue_task)
    \/ \E id \in ProcessDriverIds : Process(remove_pending_callbacks(id))
    \/ Process(set_yielded_state)
    \/ Process(stop)
    \/ Process(resume)
    \/ Process(set_fault_state)
    \/ \E v \in RetVals : Process(EmulatedProcess_set_syscall_return_value(v))
    \/ \E c \in ProcessFunctionCalls : Process(EmulatedProcess_set_process_function(c))
    \/ \E spawned \in BOOLEAN : Process(switch_to_enter(spawned))
    \/ \E ok \in BOOLEAN : Boundary(tx_connect_if_needed(ok))
    \/ \E ok \in BOOLEAN : Boundary(unyield_send_return(ok))
    \/ Boundary(unyield_call_transfer)
    \/ \E ok \in BOOLEAN : Boundary(transfer_send_preamble(ok))
    \/ \E ok \in BOOLEAN : Boundary(transfer_send_bytes(ok))
    \/ \E d \in SliceDatagrams, ok \in BOOLEAN : Boundary(transfer_recv_bytes(d, ok))
    \/ \E ok \in BOOLEAN : Boundary(transfer_send_null(ok))
    \/ \E d \in ProcessDatagrams, ok \in BOOLEAN : Boundary(unyield_recv_syscall(d, ok))
    \/ \E ptr \in KernelAddrs, order \in TableOrders :
           Process(switch_to_return(ptr, order))

ProcSpec == Init /\ [][ProcNext]_vars

\* ------------------------------------------------------------ task queue
\* The task queue exercised on its own: a process after create and up to
\* MaxQueue - 1 accepted enqueue_task calls, in any State, takes
\* enqueue_task, dequeue_task and remove_pending_callbacks in any order, and
\* every call and what it returned is recorded.
MaxQueue == 3
\* The recorded history is explored up to MaxAccepted accepted tasks.
MaxAccepted == 4

TaskKinds == EnqueueTasks \cup {KernelTask0}

CreatedQueues ==
    {<<KernelTask0>> \o q : q \in SeqsUpTo(TaskKinds, MaxQueue - 1)}

TaskInit ==
    /\ process = FALSE
    /\ allow_map = <<>>
    /\ table_order = <<>>
    /\ syscall_ret = new_ret(0)
    /\ tx_connected = FALSE
    /\ pc = "idle"
    /\ return_value = None
    /\ send = FALSE
    /\ caller = "none"
    /\ idx = 1
    /\ syscall_buf = <<>>
    /\ result = NoResult
    /\ log = <<>>
    /\ insertion_order = <<>>
    /\ populated = {}
    /\ first_call = FALSE
    /\ prev_allow = NULL
    /\ allow_ret = NULL
    /\ last_set = None
    /\ spawn_count = 0
    /\ state \in States
    /\ tasks \in CreatedQueues
    /\ work = Len(tasks) + (IF state = "Running" THEN 1 ELSE 0)
    /\ dropped_callback_count = 0
    /\ proc_ret = None
    /\ accepted = tasks
    /\ returned = <<>>
    /\ removed = FALSE
    /\ grant_region = NULL
    /\ last_grant = None
    /\ ChipInit

TaskQueue_enqueue_task(task) ==
    /\ Len(accepted) < MaxAccepted
    /\ enqueue_task(task)
    /\ proc_ret' = [op |-> "enqueue_task", ret |-> enqueue_task_ret(state)]
    /\ accepted' = IF enqueue_task_ret(state) THEN Append(accepted, task) ELSE accepted
    /\ UNCHANGED <<returned, removed, chip_vars, irq_hist, grant_vars>>

TaskQueue_dequeue_task ==
    /\ dequeue_task
    /\ proc_ret' = [op |-> "dequeue_task", ret |-> dequeue_task_ret(tasks)]
    /\ returned' = IF dequeue_task_ret(tasks) = None
                   THEN returned
                   ELSE Append(returned, dequeue_task_ret(tasks)[1])
    /\ UNCHANGED <<accepted, removed, chip_vars, irq_hist, grant_vars>>

TaskQueue_remove_pending_callbacks(callback_id) ==
    /\ remove_pending_callbacks(callback_id)
    /\ proc_ret' = [op |-> "remove_pending_callbacks", arg |-> callback_id,
                    before |-> tasks]
    /\ removed' = TRUE
    /\ UNCHANGED <<accepted, returned, chip_vars, irq_hist, grant_vars>>

TaskNext ==
    \/ \E t \in EnqueueTasks : TaskQueue_enqueue_task(t)
    \/ TaskQueue_dequeue_task
    \/ \E id \in DriverIds : TaskQueue_remove_pending_callbacks(id)

TaskSpec == TaskInit /\ [][TaskNext]_vars

\* ---------------------------------------------------------------- HostChip
\* The kernel thread drives the LowerHalf and the SysTick through the chip
\* while the UpperHalf thread feeds the channel.  A wait_for_interrupt is
\* two steps, the call and the return of its receive, because the kernel
\* thread may block in between; everything else is one step.
RECURSIVE BinaryHeap_count(_, _)
BinaryHeap_count(h, S) ==
    IF S = {}
    THEN 0
    ELSE LET s == CHOOSE x \in S : TRUE
         IN  h[s] + BinaryHeap_count(h, S \ {s})

BinaryHeap_len(h) == BinaryHeap_count(h, Sources)

BinaryHeap_push(h, s) == [h EXCEPT ![s] = @ + 1]

\* BinaryHeap::peek: the greatest element (Ord for Interrupt compares the
\* source).
BinaryHeap_peek(h) ==
    IF \A s \in Sources : h[s] = 0
    THEN None
    ELSE Some(CHOOSE s \in Sources :
                 h[s] > 0 /\ \A t \in Sources : h[t] > 0 => t <= s)

\* BinaryHeap::pop: the heap that is left.
BinaryHeap_pop(h) ==
    IF BinaryHeap_peek(h) = None
    THEN h
    ELSE [h EXCEPT ![BinaryHeap_peek(h)[1]] = @ - 1]

\* receive_interrupts, lines 84-85 and 92-93: one receive from the channel;
\* what it leaves in the channel and in the heap.  With an empty channel
\* try_recv fails and nothing moves.
received_channel(ch) == IF ch = <<>> THEN ch ELSE Tail(ch)

\* Mutant: the received interrupt is not pushed.
received_pending_drops(ch, h) == h

received_pending(ch, h) == IF ch = <<>> THEN h ELSE BinaryHeap_push(h, Head(ch))

\* UpperHalf::spin, one turn of the loop: a datagram of the external source
\* becomes an Interrupt in the channel.
UpperHalf_spin(source) ==
    /\ chip_pc # "panic"
    /\ Len(channel) + BinaryHeap_len(pending) < MaxInFlight
    /\ channel' = Append(channel, source)
    /\ UNCHANGED <<pending, chip_pc, wait_us, in_sleep, irq_ret, now, start_time,
                   set_duration_us, enabled>>

\* LowerHalf::has_pending_interrupts (HostChip::has_pending_interrupts)
has_pending_interrupts ==
    /\ chip_pc = "run"
    /\ channel' = received_channel(channel)
    /\ pending' = received_pending(channel, pending)
    /\ irq_ret' = [op |-> "has_pending_interrupts",
                   ret |-> BinaryHeap_peek(pending') # None]
    /\ UNCHANGED <<chip_pc, wait_us, in_sleep, now, start_time, set_duration_us,
                   enabled>>

\* Iterator for &mut LowerHalf: next
Iterator_next ==
    /\ chip_pc = "run"
    /\ channel' = received_channel(channel)
    /\ pending' = BinaryHeap_pop(received_pending(channel, pending))
    /\ irq_ret' = [op |-> "next",
                   ret |-> BinaryHeap_peek(received_pending(channel, pending))]
    /\ UNCHANGED <<chip_pc, wait_us, in_sleep, now, start_time, set_duration_us,
                   enabled>>

\* HostChip::service_pending_interrupts: the for loop is entered.
service_pending_interrupts ==
    /\ chip_pc = "run"
    /\ chip_pc' = "service"
    /\ irq_ret' = [op |-> "service_pending_interrupts", ret |-> None]
    /\ UNCHANGED <<channel, pending, wait_us, in_sleep, now, start_time,
                   set_duration_us, enabled>>

\* Mutant: the for loop ends after its first next.
service_loop_stops ==
    /\ chip_pc = "service"
    /\ channel' = received_channel(channel)
    /\ pending' = BinaryHeap_pop(received_pending(channel, pending))
    /\ chip_pc' = "run"
    /\ irq_ret' = [op |-> "service_pending_interrupts_return", ret |-> None]
    /\ UNCHANGED <<wait_us, in_sleep, now, start_time, set_duration_us, enabled>>

\* One turn of the for loop of service_pending_interrupts: next, then
\* dispatch_interrupt (which does nothing) or the end of the loop.
service_loop ==
    /\ chip_pc = "service"
    /\ channel' = received_channel(channel)
    /\ pending' = BinaryHeap_pop(received_pending(channel, pending))
    /\ IF BinaryHeap_peek(received_pending(channel, pending)) = None
       THEN /\ chip_pc' = "run"
            /\ irq_ret' = [op |-> "service_pending_interrupts_return", ret |-> None]
       ELSE /\ chip_pc' = "service"
            /\ irq_ret' = [op |-> "dispatch_interrupt",
                           ret |-> BinaryHeap_peek(received_pending(channel, pending))]
    /\ UNCHANGED <<wait_us, in_sleep, now, start_time, set_duration_us, enabled>>

\* SysTick::elapsed_us: None stands for the SystemTimeError of a wall clock
\* that is behind start_time.
elapsed_us == IF now >= start_time THEN Some(now - start_time) ELSE None

\* Mutant: the remaining time grows with the elapsed time.
remaining_us_grows(elapsed) == set_duration_us + elapsed

\* greater_than, lines 44-48
remaining_us(elapsed) ==
    IF set_duration_us > elapsed THEN set_duration_us - elapsed ELSE 0

\* Mutant: greater_than compares the remaining time strictly.
greater_than_strict(us) ==
    IF ~enabled
    THEN FALSE
    ELSE IF elapsed_us = None
         THEN FALSE
         ELSE remaining_us(elapsed_us[1]) > us

\* SysTick::greater_than
greater_than(us) ==
    IF ~enabled
    THEN FALSE
    ELSE IF elapsed_us = None
         THEN FALSE
         ELSE remaining_us(elapsed_us[1]) >= us

\* Mutant: overflowed does not look at enabled.
overflowed_when_enabled ==
    IF elapsed_us = None
    THEN TRUE
    ELSE elapsed_us[1] > set_duration_us

\* SysTick::overflowed
overflowed ==
    IF ~enabled
    THEN TRUE
    ELSE IF elapsed_us = None
         THEN TRUE
         ELSE elapsed_us[1] > set_duration_us

\* SysTick::get_systick_left: the remaining time of the running timer.
get_systick_left ==
    IF ~enabled \/ elapsed_us = None
    THEN None
    ELSE Some(remaining_us(elapsed_us[1]))

\* A wait_for_interrupt begins: recorded with whether the channel and the
\* heap are empty at that time.
wait_begins == [op |-> "wait", idle |-> channel = <<>> /\ BinaryHeap_len(pending) = 0]

\* LowerHalf::wait_for_interrupt is called.
wait_for_interrupt(wait) ==
    /\ chip_pc = "run"
    /\ chip_pc' = "wait"
    /\ wait_us' = wait
    /\ in_sleep' = FALSE
    /\ irq_ret' = wait_begins
    /\ UNCHANGED <<channel, pending, now, start_time, set_duration_us, enabled>>

\* HostChip::sleep calls wait_for_interrupt with what is left of the systick.
sleep ==
    /\ chip_pc = "run"
    /\ chip_pc' = "wait"
    /\ wait_us' = get_systick_left
    /\ in_sleep' = TRUE
    /\ irq_ret' = wait_begins
    /\ UNCHANGED <<channel, pending, now, start_time, set_duration_us, enabled>>

\* What the wait_for_interrupt in progress hands back, to its caller or to
\* sleep, which drops it; recorded with its argument, the interrupt the
\* receive delivered, and whether that was the only interrupt around since
\* the wait began.
wait_returns(arrived, popped) ==
    [op |-> IF in_sleep THEN "sleep" ELSE "wait_for_interrupt",
     wait |-> wait_us,
     arrived |-> arrived,
     alone |-> irq_ret.idle /\ Len(channel) <= 1,
     ret |-> popped]

\* wait_for_interrupt, lines 104-106 and 111: try_recv has run, or
\* recv_timeout has returned an interrupt; the heap is popped.
wait_for_interrupt_received ==
    /\ chip_pc = "wait"
    /\ wait_us = None \/ channel # <<>>
    /\ channel' = received_channel(channel)
    /\ pending' = BinaryHeap_pop(received_pending(channel, pending))
    /\ chip_pc' = "run"
    /\ irq_ret' = wait_returns(IF channel = <<>> THEN None ELSE Some(Head(channel)),
                               BinaryHeap_peek(received_pending(channel, pending)))
    /\ wait_us' = None
    /\ in_sleep' = FALSE
    /\ UNCHANGED <<now, start_time, set_duration_us, enabled>>

\* wait_for_interrupt, lines 94 and 105-110: recv_timeout has timed out; the
\* heap is popped, and an empty heap is a panic.
wait_for_interrupt_timeout ==
    /\ chip_pc = "wait"
    /\ wait_us # None
    /\ channel = <<>>
    /\ pending' = BinaryHeap_pop(pending)
    /\ chip_pc' = IF BinaryHeap_peek(pending) = None THEN "panic" ELSE "run"
    /\ irq_ret' = wait_returns(None, BinaryHeap_peek(pending))
    /\ wait_us' = None
    /\ in_sleep' = FALSE
    /\ UNCHANGED <<channel, now, start_time, set_duration_us, enabled>>

\* SysTick::set_timer
set_timer(us) ==
    /\ chip_pc = "run"
    /\ start_time' = now
    /\ set_duration_us' = us
    /\ UNCHANGED <<channel, pending, chip_pc, wait_us, in_sleep, irq_ret, now,
                   enabled>>

\* SysTick::reset
reset ==
    /\ chip_pc = "run"
    /\ enabled' = FALSE
    /\ start_time' = now
    /\ set_duration_us' = 0
    /\ UNCHANGED <<channel, pending, chip_pc, wait_us, in_sleep, irq_ret, now>>

\* SysTick::enable
enable(with_interrupt) ==
    /\ chip_pc = "run"
    /\ enabled' = TRUE
    /\ chip_pc' = IF with_interrupt THEN "panic" ELSE chip_pc
    /\ irq_ret' = [op |-> "enable", ret |-> None]
    /\ UNCHANGED <<channel, pending, wait_us, in_sleep, now, start_time,
                   set_duration_us>>

\* The wall clock advances.
SystemTime_advances ==
    /\ chip_pc # "panic"
    /\ now < MaxTime
    /\ now' = now + 1
    /\ UNCHANGED <<channel, pending, chip_pc, wait_us, in_sleep, irq_ret,
                   start_time, set_duration_us, enabled>>

\* The wall clock is set back: SystemTime is not monotonic.
SystemTime_set_back(t) ==
    /\ chip_pc # "panic"
    /\ t < now
    /\ now' = t
    /\ UNCHANGED <<channel, pending, chip_pc, wait_us, in_sleep, irq_ret,
                   start_time, set_duration_us, enabled>>

\* The chip on its own: no process is involved.
Chip(A) ==
    A /\ UNCHANGED <<boundary_vars, proc_vars, task_hist, irq_hist, grant_vars>>

ChipNext ==
    \/ \E s \in Sources : Chip(UpperHalf_spin(s))
    \/ Chip(has_pending_interrupts)
    \/ Chip(Iterator_next)
    \/ Chip(service_pending_interrupts)
    \/ Chip(service_loop)
    \/ \E w \in {None} \cup {Some(d) : d \in Durations} : Chip(wait_for_interrupt(w))
    \/ Chip(sleep)
    \/ Chip(wait_for_interrupt_received)
    \/ Chip(wait_for_interrupt_timeout)
    \/ \E us \in Durations : Chip(set_timer(us))
    \/ Chip(reset)
    \/ \E with_interrupt \in BOOLEAN : Chip(enable(with_interrupt))
    \/ Chip(SystemTime_advances)
    \/ \E t \in 0..MaxTime : Chip(SystemTime_set_back(t))

ChipSpec == Init /\ [][ChipNext]_vars

\* ------------------------------------------------------- reading the log
IsPreamble(e) == e.op = "send_preamble"

IsSend(e) == e.op \in {"send_ret", "send_preamble", "send_bytes"}

IsNullPreamble(e) == IsPreamble(e) /\ e.addr = 0 /\ e.len = 0

\* Position of the Syscall read in the log of this call; 0 before it.
SyscallIndex ==
    IF \E i \in DOMAIN log : log[i].op = "recv_syscall"
    THEN CHOOSE i \in DOMAIN log : log[i].op = "recv_syscall"
    ELSE 0

\* The operations of the exchange before (x = 1) and after (x = 2) the
\* Syscall read.
Segment(x) ==
    IF x = 1
    THEN SubSeq(log, 1, IF SyscallIndex = 0 THEN Len(log) ELSE SyscallIndex - 1)
    ELSE IF SyscallIndex = 0 THEN <<>> ELSE SubSeq(log, SyscallIndex + 1, Len(log))

Preambles(x) == SelectSeq(Segment(x), IsPreamble)

\* The exchange ran to its null terminator without error.
Completed(x) ==
    /\ Preambles(x) # <<>>
    /\ IsNullPreamble(Preambles(x)[Len(Preambles(x))])
    /\ Preambles(x)[Len(Preambles(x))].ok

Pos(seq, a) == CHOOSE i \in DOMAIN seq : seq[i] = a

\* The step appends one operation to the log.
Appended == Len(log') = Len(log) + 1

LastOp == log'[Len(log')]

\* The last call returned SyscallFired with an ALLOW.
ReturnedAllow ==
    pc = "idle" /\ result.reason = "SyscallFired" /\ result.syscall.class = "ALLOW"

\* The frame in syscall_buf decodes to an ALLOW.
FrameIsAllow ==
    /\ syscall_buf # <<>>
    /\ LET sc == arguments_to_syscall(as_u8(syscall_buf[1]), syscall_buf[2],
                                      syscall_buf[3], syscall_buf[4], syscall_buf[5])
       IN  sc # None /\ sc[1].class = "ALLOW"

\* ---------------------------------------------------------------- claims

\* C1 (as claimed): in an unyield that carries a stored KernelReturn, the
\* KernelReturn is the first datagram, slice bytes are sent to the app only
\* before the Syscall is read, and slice bytes are received from the app only
\* after it.
C1_WireOrder ==
    return_value # None =>
        /\ \A i \in DOMAIN log :
               log[i].op = "send_ret" => \A k \in 1..(i - 1) : log[k].op = "connect"
        /\ \A i \in DOMAIN log :
               (log[i].op = "recv_bytes" /\ log[i].ok) =>
                   (SyscallIndex # 0 /\ SyscallIndex < i)
        /\ \A i \in DOMAIN log :
               (log[i].op = "send_bytes" /\ log[i].ok) =>
                   (SyscallIndex = 0 \/ i < SyscallIndex)

\* C2: whenever the bytes of an entry are handed to the transport for
\* sending, the entry's valid flag is true at that moment and the entry's
\* contents have been received from the app since it was (re)inserted.
C2_SentOnlyIfValid ==
    [][(Appended /\ LastOp.op = "send_bytes") =>
          /\ LastOp.addr \in DOMAIN allow_map
          /\ allow_map[LastOp.addr].valid
          /\ LastOp.addr \in populated
          /\ LastOp.bytes = allow_map[LastOp.addr].slice]_vars

C2_Witness ==
    /\ prev_allow # NULL
    /\ \E i \in DOMAIN log :
           log[i].op = "send_bytes" /\ log[i].ok /\ log[i].addr = prev_allow

\* C3: an exchange that completes without error has put on the wire, each
\* exactly once, the (addr, len) preambles of the valid entries (send
\* direction) or of all entries (receive direction), followed by exactly
\* one null preamble.
C3_PreambleSet ==
    pc # "idle" =>
        \A x \in {1, 2} :
            Completed(x) =>
                LET P == Preambles(x)
                    n == Len(P)
                    expected ==
                        {<<a, Len(allow_map[a].slice)>> :
                            a \in {k \in DOMAIN allow_map : P[n].dir => allow_map[k].valid}}
                IN  /\ n = Cardinality(expected) + 1
                    /\ {<<P[i].addr, P[i].len>> : i \in 1..(n - 1)} = expected
                    /\ \A i \in 1..(n - 1) : ~IsNullPreamble(P[i]) /\ P[i].dir = P[n].dir

C3_Witness ==
    /\ pc = "l140"
    /\ Completed(1)
    /\ Completed(2)
    /\ Len(Preambles(1)) = 3
    /\ Len(Preambles(2)) = 3
    /\ ~Preambles(1)[3].dir
    /\ Preambles(2)[3].dir

FreshEntry(n) == [slice |-> Zeros(n), valid |-> FALSE]

\* A valid flag goes from false to true only in the step that receives the
\* entry's bytes from the app.
ValidOnlyByReceive ==
    \A a \in DOMAIN allow_map :
        (~allow_map[a].valid /\ a \in DOMAIN allow_map' /\ allow_map'[a].valid)
            => (Appended /\ LastOp.op = "recv_bytes" /\ LastOp.addr = a /\ LastOp.ok)

\* C5 (as claimed): when switch_to_process returns an ALLOW, the call has
\* inserted an entry keyed by the frame's app address, zero-filled, of
\* length allow_size and not valid, and changed no other entry.
C5_AllowInsertsEntry ==
    [][(pc = "l140" /\ result'.reason = "SyscallFired"
                    /\ result'.syscall.class = "ALLOW") =>
          /\ syscall_buf[4] \in DOMAIN allow_map'
          /\ allow_map'[syscall_buf[4]] = FreshEntry(syscall_buf[5])
          /\ DOMAIN allow_map' = DOMAIN allow_map \cup {syscall_buf[4]}
          /\ \A a \in DOMAIN allow_map : a # syscall_buf[4] => allow_map'[a] = allow_map[a]]_vars

\* C5 (amended): the same for an ALLOW whose app address is not null; an
\* ALLOW with the null address inserts nothing.  In every step a valid flag
\* becomes true only by receiving the entry's bytes.
C5_AllowInsertsNonNull ==
    [][/\ (pc = "l140" /\ result'.reason = "SyscallFired"
                       /\ result'.syscall.class = "ALLOW" /\ syscall_buf[4] # NULL) =>
             /\ syscall_buf[4] \in DOMAIN allow_map'
             /\ allow_map'[syscall_buf[4]] = FreshEntry(syscall_buf[5])
             /\ DOMAIN allow_map' = DOMAIN allow_map \cup {syscall_buf[4]}
             /\ \A a \in DOMAIN allow_map :
                    a # syscall_buf[4] => allow_map'[a] = allow_map[a]
       /\ ValidOnlyByReceive]_vars

C5_Witness ==
    /\ ReturnedAllow
    /\ syscall_buf[4] # NULL
    /\ DOMAIN allow_map = {1, 2}
    /\ ~allow_map[syscall_buf[4]].valid
    /\ \E a \in DOMAIN allow_map : allow_map[a].valid

\* C6: allow with the null app address returns null and leaves the
\* allow-map as it was.
C6_NullAllow ==
    [][(pc = "l140" /\ FrameIsAllow /\ syscall_buf[4] = NULL) =>
          /\ allow_map' = allow_map
          /\ table_order' = table_order
          /\ allow_ret' = NULL
          /\ result' = SyscallFired([class |-> "ALLOW", driver_number |-> syscall_buf[2],
                                     subdriver_number |-> syscall_buf[3],
                                     allow_address |-> NULL,
                                     allow_size |-> syscall_buf[5]])]_vars

C6_Witness ==
    /\ ReturnedAllow
    /\ syscall_buf[4] = NULL
    /\ syscall_buf[5] > 0
    /\ DOMAIN allow_map # {}

\* C7: allow for an address that is already a key replaces that entry by a
\* zero-filled, not valid entry of the new length; the keys and all other
\* entries stay as they were.
C7_ReAllowReplaces ==
    [][(pc = "l140" /\ FrameIsAllow /\ syscall_buf[4] \in DOMAIN allow_map) =>
          /\ DOMAIN allow_map' = DOMAIN allow_map
          /\ allow_map'[syscall_buf[4]] = FreshEntry(syscall_buf[5])
          /\ \A a \in DOMAIN allow_map :
                 a # syscall_buf[4] => allow_map'[a] = allow_map[a]]_vars

\* The replaced entry had another length and had been received in this call.
C7_Witness ==
    /\ ReturnedAllow
    /\ Cardinality(DOMAIN allow_map) = 2
    /\ \E i \in DOMAIN log :
           /\ log[i].op = "recv_bytes" /\ log[i].ok
           /\ log[i].addr = syscall_buf[4]
           /\ log[i].len # syscall_buf[5]

\* C8 (as claimed): the returned ALLOW carries the address process.allow
\* returned, which is never the app address of the frame; the other fields
\* are those of the frame.
C8_NeverAppAddress ==
    ReturnedAllow =>
        /\ result.syscall.allow_address = allow_ret
        /\ result.syscall.allow_address # syscall_buf[4]
        /\ result.syscall.driver_number = syscall_buf[2]
        /\ result.syscall.subdriver_number = syscall_buf[3]
        /\ result.syscall.allow_size = syscall_buf[5]

\* C8 (amended): the returned ALLOW carries the address process.allow
\* returned: null exactly when the frame's app address is null, otherwise
\* the kernel's buffer address; the other fields are those of the frame.
C8_KernelAddress ==
    ReturnedAllow =>
        /\ result.syscall.allow_address = allow_ret
        /\ (result.syscall.allow_address = NULL) = (syscall_buf[4] = NULL)
        /\ result.syscall.driver_number = syscall_buf[2]
        /\ result.syscall.subdriver_number = syscall_buf[3]
        /\ result.syscall.allow_size = syscall_buf[5]

C8_Witness ==
    /\ ReturnedAllow
    /\ syscall_buf[4] # NULL
    /\ result.syscall.allow_address # syscall_buf[4]
    /\ result.syscall.driver_number # result.syscall.subdriver_number

\* C9: in the call that starts the child the kernel sends nothing before it
\* has read the Syscall, never sends a KernelReturn, and once the unyield is
\* through has sent exactly one datagram: the null preamble.
C9_FirstCall ==
    first_call =>
        /\ pc # "idle" => process
        /\ \A i \in DOMAIN log :
               IsSend(log[i]) =>
                   /\ SyscallIndex # 0 /\ SyscallIndex < i /\ log[SyscallIndex].ok
                   /\ IsNullPreamble(log[i])
        /\ Cardinality({i \in DOMAIN log : IsSend(log[i])}) <= 1
        /\ (pc = "l140" \/ (pc = "idle" /\ result.reason = "SyscallFired")) =>
               Cardinality({i \in DOMAIN log : IsSend(log[i]) /\ log[i].ok}) = 1

C9_Witness ==
    /\ first_call
    /\ pc = "idle"
    /\ result.reason = "SyscallFired"
    /\ \E i \in DOMAIN log : IsNullPreamble(log[i])

\* The entry for a is valid and holds the bytes the app sent for it in this
\* call.
HoldsReceived(a) ==
    /\ a \in DOMAIN allow_map
    /\ allow_map[a].valid
    /\ \E i \in DOMAIN log :
           /\ log[i].op = "recv_bytes" /\ log[i].ok /\ log[i].addr = a
           /\ allow_map[a].slice = SubSeq(log[i].bytes, 1, log[i].len)

\* The syscall of this call is again an ALLOW for the address of the
\* previous call's ALLOW.
ReAllowed == ReturnedAllow /\ syscall_buf[4] = prev_allow

\* C10 (as claimed): if the previous call returned an ALLOW for a non-null
\* address A and this call returned SyscallFired, the entry for A is valid
\* and holds the bytes the app sent for it; if A is the only address ever
\* allowed, it is the only entry.
C10_ValidAfterNextCycle ==
    (pc = "idle" /\ prev_allow # NULL /\ result.reason = "SyscallFired") =>
        /\ HoldsReceived(prev_allow)
        /\ Range(insertion_order) = {prev_allow} => DOMAIN allow_map = {prev_allow}

\* C10 (amended): the same, provided the syscall of this call is not again
\* an ALLOW for A (which replaces the entry by a zero-filled, not valid
\* one); at the end of the unyield the entry is valid in every case.
C10_ValidUnlessReAllowed ==
    /\ (pc = "idle" /\ prev_allow # NULL /\ result.reason = "SyscallFired"
                    /\ ~ReAllowed) =>
           /\ HoldsReceived(prev_allow)
           /\ Range(insertion_order) = {prev_allow} => DOMAIN allow_map = {prev_allow}
    /\ (pc = "l140" /\ prev_allow # NULL) => HoldsReceived(prev_allow)
    /\ (pc = "idle" /\ prev_allow # NULL /\ ReAllowed) =>
           allow_map[prev_allow] = FreshEntry(syscall_buf[5])

C10_Witness ==
    /\ pc = "idle"
    /\ prev_allow # NULL
    /\ result.reason = "SyscallFired"
    /\ ~ReAllowed
    /\ HoldsReceived(prev_allow)
    /\ allow_map[prev_allow].slice # Zeros(Len(allow_map[prev_allow].slice))

\* The frame the last set_syscall_return_value / set_process_function asked
\* for; all zero (HostStoredState::default) before the first of them.
ExpectedReturn ==
    IF last_set = None THEN <<0, 0, 0, 0, 0, 0>>
    ELSE IF last_set[1].op = "set_syscall_return_value"
         THEN <<last_set[1].arg, 0, 0, 0, 0, 0>>
         ELSE <<0, last_set[1].arg.pc, last_set[1].arg.argument0,
                last_set[1].arg.argument1, last_set[1].arg.argument2,
                last_set[1].arg.argument3>>

\* C11: in a call on a started process the datagram sent at line 143 is the
\* KernelReturn of the most recent set_syscall_return_value or
\* set_process_function: {v, pc 0, args 0} or {0, call.pc, call.argument0..3};
\* no KernelReturn is sent anywhere else.
C11_ShipsLastStored ==
    [][/\ pc = "l143" =>
             (Appended /\ LastOp.op = "send_ret" /\ ~first_call
                       /\ LastOp.bytes = ExpectedReturn)
       /\ (Appended /\ LastOp.op = "send_ret") => pc = "l143"]_vars

C11_Witness ==
    /\ last_set # None
    /\ last_set[1].op = "set_process_function"
    /\ \E i \in DOMAIN log :
           /\ log[i].op = "send_ret" /\ log[i].ok
           /\ log[i].bytes[1] = 0 /\ log[i].bytes[2] # 0 /\ log[i].bytes[6] # 0

\* C12: the stored KernelReturn is {v, cb = {0, [0,0,0,0]}} after
\* set_syscall_return_value(v) and {0, cb} after set_process_function; so a
\* non-zero ret_val comes with an all-zero callback.
C12_OneMeaningfulHalf ==
    /\ syscall_ret.ret_val # 0 =>
           (syscall_ret.cb.pc = 0 /\ syscall_ret.cb.args = <<0, 0, 0, 0>>)
    /\ KernelReturn_as_bytes(syscall_ret) = ExpectedReturn

C12_Witness ==
    /\ process
    /\ syscall_ret.ret_val # 0
    /\ pc = "l144"

\* C13 (as claimed): a call that returns SyscallFired read a datagram of the
\* full size of a Syscall frame; a shorter datagram ends in Fault.
C13_ShortFrameFaults ==
    (pc = "idle" /\ result.reason = "SyscallFired") =>
        Len(log[SyscallIndex].bytes) >= 5

\* A transport operation that failed: the socket reported an error, sent or
\* received less than asked for, or delivered a datagram shorter than the
\* Syscall frame asked for.
FailedOp(e) == ~e.ok \/ (e.op = "recv_syscall" /\ Len(e.bytes) < 5)

\* C14 (as claimed): a failed transport operation is the last one of its
\* call, and the call returns Fault.
C14_FailureFaults ==
    \A i \in DOMAIN log :
        FailedOp(log[i]) => (i = Len(log) /\ pc = "idle" /\ result = Fault)

\* C14, for the failures the transport reports: such an operation is the
\* last one of its call, and the call returns Fault.
C14_ReportedFailureFaults ==
    \A i \in DOMAIN log :
        ~log[i].ok => (i = Len(log) /\ pc = "idle" /\ result = Fault)

\* C15 (as claimed): a frame whose syscall_number word is none of 0..4 makes
\* the call return Fault and leaves the allow-map alone.
C15_UndefinedNumberFaults ==
    [][(pc = "l140" /\ syscall_buf[1] \notin 0..4) =>
          (result' = Fault /\ allow_map' = allow_map)]_vars

\* C16: the child is spawned at most once, and once spawned it stays
\* started.
C16_SpawnedOnce ==
    /\ spawn_count <= 1
    /\ (spawn_count = 1) = process

C16_Witness ==
    /\ spawn_count = 1
    /\ process
    /\ ~first_call
    /\ pc = "idle"
    /\ result.reason = "SyscallFired"

\* The transitions of the process state machine.
AllowedTransitions ==
    {<<"Unstarted", "Running">>, <<"Running", "Yielded">>, <<"Yielded", "Running">>,
     <<"Running", "StoppedRunning">>, <<"Yielded", "StoppedYielded">>,
     <<"StoppedRunning", "Running">>, <<"StoppedYielded", "Yielded">>}

\* The step is an EmulatedProcess::set_process_function.
IsSetProcessFunction == work' = work + 1 /\ tasks' = tasks

\* C17 (as claimed): every change of the process state is one of the allowed
\* transitions or leads to Fault, and set_process_function does not move a
\* stopped process.
C17_Transitions ==
    [][/\ state' # state =>
             (<<state, state'>> \in AllowedTransitions \/ state' = "Fault")
       /\ (IsSetProcessFunction /\ state \in {"StoppedRunning", "StoppedYielded"})
             => state' = state]_vars

\* C18 (as claimed): when the first switch_to returns SyscallFired the
\* process is Running.
C18_FirstSwitchRuns ==
    [][(pc = "l140" /\ first_call /\ result'.reason = "SyscallFired") =>
          state' = "Running"]_vars

\* C18 (amended): switch_to never changes the process state; it is
\* set_process_function that takes an Unstarted process to Running.
C18_SwitchKeepsState ==
    [][/\ ((pc # "idle" \/ pc' # "idle") /\ pc' # "panic") => state' = state
       /\ (IsSetProcessFunction /\ state = "Unstarted") => state' = "Running"]_vars

C18_Witness ==
    /\ pc = "idle"
    /\ first_call
    /\ result.reason = "SyscallFired"
    /\ state = "Unstarted"

\* C19: stop takes Running to StoppedRunning and Yielded to StoppedYielded,
\* resume takes them back, both leave every other state alone; resume undoes
\* stop on Running and Yielded, and both are idempotent.
C19_StopResume ==
    [][/\ stop =>
             state' = (CASE state = "Running" -> "StoppedRunning"
                         [] state = "Yielded" -> "StoppedYielded"
                         [] OTHER -> state)
       /\ resume =>
             state' = (CASE state = "StoppedRunning" -> "Running"
                         [] state = "StoppedYielded" -> "Yielded"
                         [] OTHER -> state)
       /\ \A s \in {"Running", "Yielded"} : resume_state(stop_state(s)) = s
       /\ \A s \in States :
              /\ stop_state(stop_state(s)) = stop_state(s)
              /\ resume_state(resume_state(s)) = resume_state(s)]_vars

C19_Witness ==
    /\ state = "StoppedYielded"
    /\ process
    /\ pc = "idle"

\* C20: once switch_to has returned Fault, the one thing that happens is
\* set_fault_state, which stores Fault and ends the kernel thread: no
\* transport operation follows.
C20_FaultIsTerminal ==
    [][/\ (pc = "idle" /\ result.reason = "Fault") =>
             (state' = "Fault" /\ pc' = "panic" /\ log' = log)
       /\ pc = "panic" => FALSE]_vars

C20_Witness ==
    /\ pc = "panic"
    /\ result.reason = "Fault"
    /\ state = "Fault"
    /\ log # <<>>


\* ------------------------------------------------------------ task queue
\* enqueue_task was refused: the last queue operation is an enqueue_task that
\* returned false.
Refused == proc_ret # None /\ proc_ret.op = "enqueue_task" /\ ~proc_ret.ret

\* C21: enqueue_task on a process in state Fault or StoppedFaulted returns
\* false and leaves the task queue, the work counter and the debug counter
\* unchanged; in every other state it returns true and appends the task at
\* the back of the queue.
C21_EnqueueTask ==
    [][\A t \in EnqueueTasks :
          TaskQueue_enqueue_task(t) =>
             IF state \in {"Fault", "StoppedFaulted"}
             THEN /\ proc_ret'.ret = FALSE
                  /\ tasks' = tasks
                  /\ work' = work
                  /\ dropped_callback_count' = dropped_callback_count
             ELSE /\ proc_ret'.ret = TRUE
                  /\ tasks' = Append(tasks, t)]_vars

C21_Witness ==
    /\ Refused
    /\ state = "StoppedFaulted"
    /\ Len(tasks) = 1
    /\ accepted = tasks

\* C22 (as claimed): the work counter equals the number of queued tasks plus
\* one if the process is Running.
C22_WorkBalance ==
    work = Len(tasks) + (IF state = "Running" THEN 1 ELSE 0)

\* C23: the work counter is never negative; create leaves it at 1 with the
\* pc=0 Kernel task as the only task; an enqueue_task that returns true adds
\* one, a dequeue_task that returns a task takes one, and a dequeue_task on
\* an empty queue leaves it alone.
C23_WorkCounter ==
    /\ work = 1 /\ tasks = <<KernelTask0>>
    /\ [](work >= 0)
    /\ [][/\ \A t \in EnqueueTasks :
               (enqueue_task(t) /\ enqueue_task_ret(state)) => work' = work + 1
          /\ (dequeue_task /\ dequeue_task_ret(tasks) # None) =>
                (work > 0 /\ work' = work - 1)
          /\ (dequeue_task /\ dequeue_task_ret(tasks) = None) => work' = work]_vars

C23_Witness ==
    /\ tasks = <<[kind |-> "IPC"]>>
    /\ work = 1
    /\ state = "Unstarted"

\* The task is a FunctionCall scheduled by Driver(id).
FromDriver(task, id) == task.kind = "FunctionCall" /\ task.source = <<"Driver", id>>

\* C24: remove_pending_callbacks(id) removes exactly the FunctionCall tasks
\* whose source is Driver(id); the Kernel calls, the calls of other drivers
\* and the tasks that are no FunctionCall stay, in their order.
C24_RemovePending ==
    [][\A id \in DriverIds :
          TaskQueue_remove_pending_callbacks(id) =>
             tasks' = SelectSeq(tasks, LAMBDA t : ~FromDriver(t, id))]_vars

C24_Witness ==
    /\ proc_ret # None
    /\ proc_ret.op = "remove_pending_callbacks"
    /\ Len(proc_ret.before) = 3
    /\ FromDriver(proc_ret.before[2], proc_ret.arg)
    /\ tasks = <<proc_ret.before[1], proc_ret.before[3]>>
    /\ \E id \in DriverIds : id # proc_ret.arg /\ FromDriver(tasks[2], id)

\* C25: while remove_pending_callbacks is not called, the tasks dequeue_task
\* returned, followed by the tasks still queued, are the tasks create and
\* enqueue_task accepted, in the same order, the pc=0 Kernel task of create
\* first.
C25_Fifo ==
    ~removed =>
        /\ accepted = returned \o tasks
        /\ Head(accepted) = KernelTask0

C25_Witness ==
    /\ ~removed
    /\ Len(returned) = 3
    /\ Len(accepted) = MaxAccepted
    /\ returned[2] # returned[3]
    /\ tasks # <<>>

\* -------------------------------------------------------------- interrupts
\* The interrupts the upper half has sent and no pop has returned: those in
\* the channel and those in the heap.
InFlight == {s \in Sources : pending[s] > 0 \/ \E i \in DOMAIN channel : channel[i] = s}

InFlightMax ==
    IF InFlight = {}
    THEN None
    ELSE Some(CHOOSE s \in InFlight : \A t \in InFlight : t <= s)

\* The heap with every interrupt of the channel pushed.
Drained(h, ch) ==
    [s \in Sources |-> h[s] + Cardinality({i \in DOMAIN ch : ch[i] = s})]

\* C26 (as claimed): every pop of the iterator returns the greatest source id
\* among the interrupts sent and not yet popped.
C26_PopsMaximum ==
    [][(Iterator_next \/ service_loop) => irq_ret'.ret = InFlightMax]_vars

\* C27 (as claimed): a wait_for_interrupt with a deadline that finds the heap
\* empty and receives nothing before the deadline returns None and does not
\* panic.
C27_TimeoutReturnsNone ==
    [][(wait_for_interrupt_timeout /\ ~in_sleep /\ BinaryHeap_len(pending) = 0) =>
          (chip_pc' = "run" /\ irq_ret'.ret = None)]_vars

\* C28 (as claimed): has_pending_interrupts moves every interrupt of the
\* channel into the heap, removes none from the heap, and returns true iff
\* the heap is not empty afterwards.
C28_DrainsChannel ==
    [][has_pending_interrupts =>
          /\ channel' = <<>>
          /\ pending' = Drained(pending, channel)
          /\ irq_ret'.ret = (BinaryHeap_len(pending') > 0)]_vars

\* sleep has returned after one interrupt arrived during it, with an
\* unexpired deadline and nothing else in the channel or the heap.
WokenByInterrupt ==
    /\ irq_ret # None
    /\ irq_ret.op = "sleep"
    /\ irq_ret.arrived # None
    /\ irq_ret.alone
    /\ irq_ret.wait # None
    /\ irq_ret.wait[1] > 0

\* C29 (as claimed): the interrupt that arrived during sleep is still in the
\* heap when sleep has returned.
C29_StillPending ==
    WokenByInterrupt => pending[irq_ret.arrived[1]] > 0

\* n floored at 0.
Floor0(n) == IF n > 0 THEN n ELSE 0

\* C30 (as claimed): greater_than(us) is true iff the systick is enabled and
\* the set duration minus the elapsed time, floored at 0, is at least us;
\* overflowed is true iff the systick is disabled or the elapsed time
\* exceeds the set duration; the elapsed time is the time since the last
\* set_timer.
C30_Queries ==
    /\ \A us \in 0..(MaxDuration + 1) :
          greater_than(us) <=>
             (enabled /\ Floor0(set_duration_us - (now - start_time)) >= us)
    /\ overflowed <=> (~enabled \/ now - start_time > set_duration_us)

\* C30 (amended): as claimed while the wall clock is not behind the time of
\* the last set_timer; when it is, greater_than is false for every us and
\* overflowed is true.
C30_QueriesClock ==
    /\ \A us \in 0..(MaxDuration + 1) :
          greater_than(us) <=>
             /\ enabled
             /\ now >= start_time
             /\ Floor0(set_duration_us - (now - start_time)) >= us
    /\ overflowed <=>
          (~enabled \/ now < start_time \/ now - start_time > set_duration_us)

C30_Witness ==
    /\ enabled
    /\ now = start_time + 1
    /\ set_duration_us = 2
    /\ greater_than(1)
    /\ ~greater_than(2)
    /\ ~overflowed

\* ----------------------------------------------------------------- systick
\* The thresholds asked of greater_than.
Thresholds == 0..(MaxDuration + 1)

\* The step leaves the timer as set_timer left it: no set_timer, reset or
\* enable changes it.
TimerKept == UNCHANGED <<start_time, set_duration_us, enabled>>

\* C31 (as claimed): greater_than(u) is false for every u above the set
\* duration, and while the timer is left alone and the wall clock advances,
\* a greater_than(u) that is false stays false.
C31_Monotone ==
    /\ [](\A u \in Thresholds : u > set_duration_us => ~greater_than(u))
    /\ [][(TimerKept /\ now' > now) =>
             \A u \in Thresholds : ~greater_than(u) => ~greater_than(u)']_vars

\* C31 (amended): greater_than(u) is false for every u above the set
\* duration, and while the timer is left alone and the wall clock advances
\* from a time that is not behind the time of set_timer, a greater_than(u)
\* that is false stays false.
C31_MonotoneFromStart ==
    /\ [](\A u \in Thresholds : u > set_duration_us => ~greater_than(u))
    /\ [][(TimerKept /\ now' > now /\ now >= start_time) =>
             \A u \in Thresholds : ~greater_than(u) => ~greater_than(u)']_vars

C31_Witness ==
    /\ enabled
    /\ set_duration_us = 2
    /\ now = start_time + 2
    /\ greater_than(0)
    /\ ~greater_than(1)

\* C32: a disabled systick answers false to every greater_than and true to
\* overflowed; reset disables it, set_timer leaves it as it is, only enable
\* enables it, and enable(true) ends in the panic "not implemented".
C32_ResetDisables ==
    /\ [](~enabled => (overflowed /\ \A u \in Thresholds : ~greater_than(u)))
    /\ [][/\ reset => ~enabled'
          /\ (\E us \in Durations : set_timer(us)) => enabled' = enabled
          /\ (~enabled /\ enabled') => \E b \in BOOLEAN : enable(b)
          /\ enable(FALSE) => (enabled' /\ chip_pc' = "run")
          /\ enable(TRUE) => chip_pc' = "panic"]_vars

C32_Witness ==
    /\ ~enabled
    /\ set_duration_us = 2
    /\ now = start_time
    /\ overflowed
    /\ ~greater_than(0)

\* ------------------------------------------------------- interrupt history
\* The interrupt path exercised on its own, the timer left as constructed:
\* the upper half sends up to MaxSent interrupts while the kernel thread
\* calls has_pending_interrupts, next, service_pending_interrupts and
\* wait_for_interrupt, and what is sent, handed out and dispatched is
\* recorded.
MaxSent == 4

\* h with the interrupt of ret, if any, added.
Handed(h, ret) == IF ret = None THEN h ELSE BinaryHeap_push(h, ret[1])

IrqFrame == UNCHANGED <<boundary_vars, proc_vars, task_hist, grant_vars>>

Irq_UpperHalf_spin(source) ==
    /\ BinaryHeap_len(sent) < MaxSent
    /\ UpperHalf_spin(source)
    /\ sent' = BinaryHeap_push(sent, source)
    /\ produced' = (produced \/ chip_pc = "service")
    /\ UNCHANGED <<handed_out, service_start, dispatched>>
    /\ IrqFrame

Irq_has_pending_interrupts ==
    /\ has_pending_interrupts
    /\ UNCHANGED irq_hist
    /\ IrqFrame

Irq_Iterator_next ==
    /\ Iterator_next
    /\ handed_out' = Handed(handed_out, irq_ret'.ret)
    /\ UNCHANGED <<sent, service_start, dispatched, produced>>
    /\ IrqFrame

Irq_service_pending_interrupts ==
    /\ service_pending_interrupts
    /\ service_start' = Drained(pending, channel)
    /\ dispatched' = BinaryHeap_new
    /\ produced' = FALSE
    /\ UNCHANGED <<sent, handed_out>>
    /\ IrqFrame

Irq_service_loop ==
    /\ service_loop
    /\ handed_out' = Handed(handed_out, irq_ret'.ret)
    /\ dispatched' = IF irq_ret'.op = "dispatch_interrupt"
                     THEN Handed(dispatched, irq_ret'.ret)
                     ELSE dispatched
    /\ UNCHANGED <<sent, service_start, produced>>
    /\ IrqFrame

Irq_wait_for_interrupt(wait) ==
    /\ wait_for_interrupt(wait)
    /\ UNCHANGED irq_hist
    /\ IrqFrame

Irq_wait_for_interrupt_received ==
    /\ wait_for_interrupt_received
    /\ handed_out' = Handed(handed_out, irq_ret'.ret)
    /\ UNCHANGED <<sent, service_start, dispatched, produced>>
    /\ IrqFrame

Irq_wait_for_interrupt_timeout ==
    /\ wait_for_interrupt_timeout
    /\ handed_out' = Handed(handed_out, irq_ret'.ret)
    /\ UNCHANGED <<sent, service_start, dispatched, produced>>
    /\ IrqFrame

IrqNext ==
    \/ \E s \in Sources : Irq_UpperHalf_spin(s)
    \/ Irq_has_pending_interrupts
    \/ Irq_Iterator_next
    \/ Irq_service_pending_interrupts
    \/ Irq_service_loop
    \/ \E w \in {None} \cup {Some(d) : d \in Durations} : Irq_wait_for_interrupt(w)
    \/ Irq_wait_for_interrupt_received
    \/ Irq_wait_for_interrupt_timeout

IrqSpec == Init /\ [][IrqNext]_vars

\* C33: when service_pending_interrupts returns and no interrupt was sent
\* during the call, it has dispatched, each exactly once, the interrupts that
\* were in the heap or in the channel when it began, the heap and the channel
\* are empty, and a has_pending_interrupts that follows at once returns
\* false.
C33_ServiceDrains ==
    [][(Irq_service_loop /\ chip_pc' = "run" /\ ~produced) =>
          /\ dispatched' = service_start
          /\ channel' = <<>>
          /\ BinaryHeap_len(pending') = 0
          /\ BinaryHeap_peek(received_pending(channel', pending')) = None]_vars

C33_Witness ==
    /\ chip_pc = "run"
    /\ irq_ret # None
    /\ irq_ret.op = "service_pending_interrupts_return"
    /\ ~produced
    /\ dispatched = service_start
    /\ BinaryHeap_len(dispatched) = 3
    /\ \E s \in Sources : dispatched[s] = 2

\* C38: every interrupt the upper half sent is in the channel, in the heap,
\* or was handed out by exactly one pop: for every source id the number sent
\* is the number in the channel plus the number in the heap plus the number
\* handed out.
C38_Conserved ==
    \A s \in Sources :
        sent[s] = Drained(pending, channel)[s] + handed_out[s]

C38_Witness ==
    /\ \E s \in Sources : handed_out[s] = 2
    /\ channel # <<>>
    /\ BinaryHeap_len(pending) > 0
    /\ BinaryHeap_len(sent) = MaxSent

\* ------------------------------------------------------------ grant region
\* The grant pointer cell of EmulatedProcess, written by set_grant_ptr and
\* read by get_grant_ptr while the process is stopped and resumed.  Process
\* objects start in every State, as in TaskInit.
MaxGrants == 2

GrantNums == 0..MaxGrants

\* Kernel::get_grant_count_and_finalize_external: the number of grants the
\* kernel has, fixed once it is finalized.
get_grant_count_and_finalize_external == MaxGrants

\* Mutant: the state of the process is not looked at.
get_grant_ptr_inactive(grant_num) ==
    IF grant_num >= get_grant_count_and_finalize_external
    THEN None
    ELSE Some(grant_region)

get_grant_ptr(grant_num) ==
    IF ~is_active(state)
    THEN None
    ELSE IF grant_num >= get_grant_count_and_finalize_external
         THEN None
         ELSE Some(grant_region)

set_grant_ptr(grant_num, grant_ptr) ==
    /\ scheduler_runs
    /\ grant_region' = grant_ptr
    /\ last_grant' = Some([grant_num |-> grant_num, grant_ptr |-> grant_ptr])
    /\ UNCHANGED <<boundary_vars, proc_vars, task_hist, chip_vars, irq_hist>>

GrantNext ==
    \/ \E n \in GrantNums, ptr \in 0..MaxAddr : set_grant_ptr(n, ptr)
    \/ Process(stop)
    \/ Process(resume)
    \/ Process(set_yielded_state)

GrantSpec == TaskInit /\ [][GrantNext]_vars

\* C34: get_grant_ptr(n) is None when the process state is Fault or
\* StoppedFaulted or n is not below the kernel's grant count; otherwise it is
\* the pointer of the most recent set_grant_ptr, whatever grant number that
\* call was given, or the initial null cell when there was no such call.
C34_GrantPtr ==
    \A n \in GrantNums :
        get_grant_ptr(n) =
            IF \/ state \in {"Fault", "StoppedFaulted"}
               \/ n >= get_grant_count_and_finalize_external
            THEN None
            ELSE IF last_grant = None
                 THEN Some(NULL)
                 ELSE Some(last_grant[1].grant_ptr)

C34_Witness ==
    /\ last_grant # None
    /\ last_grant[1].grant_num = 1
    /\ last_grant[1].grant_ptr # NULL
    /\ get_grant_ptr(0) = Some(last_grant[1].grant_ptr)
    /\ get_grant_ptr(MaxGrants) = None

\* ------------------------------------------------------ claims C35 to C39
\* C35: recv_bytes(buf) succeeds only if the received datagram has exactly
\* buf.len() bytes: every successful recv_bytes of the log received a
\* datagram of the length of the region it was read into.
C35_RecvBytesExact ==
    \A i \in DOMAIN log :
        (log[i].op = "recv_bytes" /\ log[i].ok) => Len(log[i].bytes) = log[i].len

\* The entries of the allow-map that are not valid.
InvalidEntries == {a \in DOMAIN allow_map : ~is_valid(allow_map[a])}

\* C36: when switch_to_process returns SyscallFired on a process that was
\* already started, at most one entry of the allow-map is not valid, and it
\* is the entry this call inserted for an ALLOW with a non-null address; so
\* after a syscall that is not an ALLOW every entry is valid.
C36_ValidButNew ==
    (pc = "idle" /\ result.reason = "SyscallFired" /\ ~first_call) =>
        /\ Cardinality(InvalidEntries) <= 1
        /\ \A a \in InvalidEntries :
              /\ result.syscall.class = "ALLOW"
              /\ a = syscall_buf[4]
              /\ a # NULL

C36_Witness ==
    /\ ReturnedAllow
    /\ ~first_call
    /\ DOMAIN allow_map = {1, 2}
    /\ InvalidEntries = {syscall_buf[4]}

\* Every key of the allow-map has a preamble in exchange x.
AllExchanged(x) ==
    \A a \in DOMAIN allow_map :
        \E i \in DOMAIN Preambles(x) : Preambles(x)[i].addr = a /\ Preambles(x)[i].ok

\* C37: no step removes a key of the allow-map, so every address that was
\* ever inserted is a key, and every exchange of a later unyield that
\* completes has put out a preamble for every key.
C37_KeysKept ==
    /\ [](Range(insertion_order) \subseteq DOMAIN allow_map)
    /\ [](pc # "idle" => \A x \in {1, 2} : Completed(x) => AllExchanged(x))
    /\ [][DOMAIN allow_map \subseteq DOMAIN allow_map']_vars

C37_Witness ==
    /\ pc = "l140"
    /\ DOMAIN allow_map = {1, 2}
    /\ Completed(1)
    /\ Completed(2)
    /\ AllExchanged(1)
    /\ AllExchanged(2)
    /\ FrameIsAllow
    /\ syscall_buf[4] = NULL

\* The step belongs to a call of EmulatedProcess::switch_to.
InSwitchTo ==
    \/ pc \notin {"idle", "panic"}
    \/ pc = "idle" /\ pc' \notin {"idle", "panic"}

\* C39: stop and resume leave the task queue, the work counter, the stored
\* KernelReturn and the allow-map as they were, and no step of switch_to
\* changes the process state, the task queue or the work counter.
C39_Frame ==
    [][/\ (Process(stop) \/ Process(resume)) =>
              UNCHANGED <<tasks, work, syscall_ret, allow_map>>
       /\ InSwitchTo => UNCHANGED <<state, tasks, work>>]_vars

C39_Witness ==
    /\ state = "StoppedYielded"
    /\ pc = "idle"
    /\ result.reason = "SyscallFired"
    /\ tasks # <<>>
    /\ work > 0
    /\ DOMAIN allow_map # {}
    /\ syscall_ret # None

=============================================================================
